---- MODULE Spec2Model ----
(***************************************************************************)
(* A model of the keyed resource cache of src/src/lib.rs: the type-erased  *)
(* shared handle (RawHandle / Handle<T>) and the two tiers of              *)
(* ResourceCache (the in_use map and the loaded LRU pool).                 *)
(*                                                                         *)
(* An instance (one HandleInner allocation) is named by the index at which *)
(* it was created; Arc::ptr_eq is equality of these indices.  The strong   *)
(* count of every Arc is kept explicitly and changes only where the code   *)
(* clones or drops a RawHandle.                                            *)
(*                                                                         *)
(* Every method of the cache is an operator from the cache's state (a      *)
(* record c) to the state after the call and what the call returns; the    *)
(* actions apply these operators to the variables, and a statement about   *)
(* consecutive calls composes them.                                        *)
(***************************************************************************)
EXTENDS Integers, Sequences, FiniteSets, TLC

\* ---------------------------------------------------------------- bounds
\* the largest capacity given to ResourceCache::new
MaxCapacity == 2
\* the keys the callers use
NumKeys == 3
\* the number of calls of insert
MaxInst == 3
\* the number of handles the callers hold at a time
MaxHandles == 2

Keys == 1..NumKeys

\* the dynamic types a value may have; the n-th insert stores the payload n,
\* so that no two inserts store equal values
Types == {"i32", "str"}
Values == {[ty |-> T, v |-> n] : T \in Types, n \in 1..(MaxInst + 1)}
NoValue == [ty |-> "none", v |-> 0]
Panic == [ty |-> "panic", v |-> 0]

\* the static type of a handle a caller holds: Handle<T>, or RawHandle
Raw == "raw"
Sty == Types \cup {Raw}

VARIABLES
    inst,      \* the HandleInner allocations made so far: <<[key, value]>>
    strong,    \* Arc::strong_count of each instance (0: freed)
    in_use,    \* ResourceCache.in_use: key -> instance (0: no entry)
    loaded,    \* ResourceCache.loaded: <<[key, inst]>>, least recently used first
    capacity,  \* the capacity of ResourceCache.loaded, fixed by ResourceCache::new
    handles,   \* the handles callers hold: instance -> static type -> how many
    demoted,   \* history: the keys of loaded, in the order of their last demotion
    run,       \* history: the distinct keys demoted last, in order, since the last lookup
    clean,     \* history: run, cut after each key that was inserted again
    removing   \* the remove that has read the count and not yet acted: [i, two, cloned]

vars == <<inst, strong, in_use, loaded, capacity, handles, demoted, run, clean, removing>>

\* the cache and the allocations it refers to, as one value
State ==
    [inst |-> inst, strong |-> strong, in_use |-> in_use, loaded |-> loaded, cap |-> capacity]

\* ------------------------------------------------------------ the handle
TypeOf(value) == value.ty

\* line 70: self.0.value.is::<T>()
IsAlways(c, i, T) == TRUE
Is(c, i, T) == TypeOf(c.inst[i].value) = T

\* line 64: downcast_ref() (None is written NoValue)
downcast_ref(c, i, T) == IF TypeOf(c.inst[i].value) = T THEN c.inst[i].value ELSE NoValue

\* Deref for Handle<T>: downcast_ref().unwrap()
Deref(c, i, T) == IF downcast_ref(c, i, T) = NoValue THEN Panic ELSE downcast_ref(c, i, T)

\* RawHandle::ptr_eq
ptr_eq(a, b) == a = b

\* the last handle of an instance is dropped: the HandleInner is freed and its
\* value dropped with it (the key stays on record as the name of the insert)
Reap(c) ==
    [c EXCEPT !.inst = [j \in DOMAIN c.inst |->
        IF c.strong[j] = 0 THEN [key |-> c.inst[j].key, value |-> NoValue] ELSE c.inst[j]]]

\* Handle::new: a fresh allocation owned by the one handle returned
HandleNew(c, k, value) ==
    [c EXCEPT !.inst = Append(@, [key |-> k, value |-> value]), !.strong = Append(@, 1)]

\* Clone for RawHandle (Arc::clone), and the drop of one RawHandle; 0 stands
\* for "no handle" (an Option that is None)
CloneRaw(c, i) == IF i = 0 THEN c ELSE [c EXCEPT !.strong[i] = @ + 1]
DropRaw(c, i) == IF i = 0 THEN c ELSE Reap([c EXCEPT !.strong[i] = @ - 1])

\* ------------------------------------------------------------ the LRU pool
RECURSIVE Without(_, _)
Without(q, k) ==
    IF q = <<>> THEN <<>>
    ELSE IF Head(q).key = k THEN Without(Tail(q), k)
    ELSE <<Head(q)>> \o Without(Tail(q), k)

LoadedKeys(q) == {q[j].key : j \in 1..Len(q)}
HasKey(q, k) == k \in LoadedKeys(q)

\* the instance stored under k, or 0
Peek(q, k) == IF HasKey(q, k) THEN (CHOOSE e \in {q[j] : j \in 1..Len(q)} : e.key = k).inst ELSE 0

\* LruCache::pop: the pool without k, and the value that was stored (0: None)
LruPopEvicts(q, k) == [q |-> IF q = <<>> THEN q ELSE Without(Tail(q), k), v |-> Peek(q, k)]
LruPop(q, k) == [q |-> Without(q, k), v |-> Peek(q, k)]

\* LruCache::put: k becomes the most recently used entry; a value stored for k
\* is replaced and returned (old), and a full pool first gives up its least
\* recently used entry (evicted, under evictedKey)
LruPutNoEvict(q, k, i, cap) ==
    [q |-> Append(Without(q, k), [key |-> k, inst |-> i]), old |-> Peek(q, k),
     evicted |-> 0, evictedKey |-> 0]
LruPutEvictNewest(q, k, i, cap) ==
    IF HasKey(q, k) \/ Len(q) < cap
    THEN LruPutNoEvict(q, k, i, cap)
    ELSE [q |-> Append(SubSeq(q, 1, Len(q) - 1), [key |-> k, inst |-> i]), old |-> 0,
          evicted |-> q[Len(q)].inst, evictedKey |-> q[Len(q)].key]
LruPutEvictEarly(q, k, i, cap) ==
    IF HasKey(q, k) \/ q = <<>>
    THEN LruPutNoEvict(q, k, i, cap)
    ELSE [q |-> Append(Tail(q), [key |-> k, inst |-> i]), old |-> 0,
          evicted |-> Head(q).inst, evictedKey |-> Head(q).key]
LruPut(q, k, i, cap) ==
    IF HasKey(q, k)
    THEN [q |-> Append(Without(q, k), [key |-> k, inst |-> i]), old |-> Peek(q, k),
          evicted |-> 0, evictedKey |-> 0]
    ELSE IF Len(q) >= cap
    THEN [q |-> Append(Tail(q), [key |-> k, inst |-> i]), old |-> 0,
          evicted |-> Head(q).inst, evictedKey |-> Head(q).key]
    ELSE [q |-> Append(q, [key |-> k, inst |-> i]), old |-> 0, evicted |-> 0, evictedKey |-> 0]

\* ------------------------------------------------------------ ResourceCache
\* line 90: let _ = self.loaded.pop(&key)
InsertKeepsLoaded(c, k) == [q |-> c.loaded, v |-> 0]
InsertPop(c, k) == LruPop(c.loaded, k)

\* ResourceCache::insert(key, value) -> Handle<T>; ret is the instance of the
\* handle returned
InsertIfVacant(c, k, value) ==
    LET p == InsertPop(c, k)
        c1 == DropRaw([c EXCEPT !.loaded = p.q], p.v)
        n == Len(c.inst) + 1
        c2 == HandleNew(c1, k, value)
    IN [c |-> IF c.in_use[k] # 0 THEN c2 ELSE CloneRaw([c2 EXCEPT !.in_use[k] = n], n), ret |-> n]
insert(c, k, value) ==
    LET p == InsertPop(c, k)
        c1 == DropRaw([c EXCEPT !.loaded = p.q], p.v)
        n == Len(c.inst) + 1
        c2 == CloneRaw(HandleNew(c1, k, value), n)
        c3 == DropRaw([c2 EXCEPT !.in_use[k] = n], c.in_use[k])
    IN [c |-> c3, ret |-> n]

\* ResourceCache::get_raw(key) -> Option<RawHandle>; ret = 0 is None
GetRawKeepsLoaded(c, k) ==
    IF c.in_use[k] # 0
    THEN [c |-> CloneRaw(c, c.in_use[k]), ret |-> c.in_use[k]]
    ELSE IF Peek(c.loaded, k) # 0
    THEN [c |-> CloneRaw(CloneRaw([c EXCEPT !.in_use[k] = Peek(c.loaded, k)],
                                  Peek(c.loaded, k)), Peek(c.loaded, k)),
          ret |-> Peek(c.loaded, k)]
    ELSE [c |-> c, ret |-> 0]
get_raw(c, k) ==
    IF c.in_use[k] # 0
    THEN [c |-> CloneRaw(c, c.in_use[k]), ret |-> c.in_use[k]]
    ELSE LET p == LruPop(c.loaded, k)
         IN IF p.v # 0
            THEN [c |-> CloneRaw([c EXCEPT !.loaded = p.q, !.in_use[k] = p.v], p.v), ret |-> p.v]
            ELSE [c |-> c, ret |-> 0]

\* line 97: x.downcast().ok() on a mismatch: the Err(RawHandle) is dropped
GetMismatchLeaks(r) == [c |-> r.c, ret |-> 0]
GetMismatch(r) == [c |-> DropRaw(r.c, r.ret), ret |-> 0]

\* ResourceCache::get::<T>(key) -> Option<Handle<T>>
get(c, k, T) ==
    LET r == get_raw(c, k)
    IN IF r.ret = 0 \/ Is(r.c, r.ret, T) THEN r ELSE GetMismatch(r)

\* line 115: Arc::strong_count(&value.0) == 2
RemoveGuardAtLeast2(c, i) == c.strong[i] >= 2
RemoveGuardOffByOne(c, i) == c.strong[i] = 3
RemoveGuardAny(c, i) == TRUE
RemoveGuard(c, i) == c.strong[i] = 2

\* line 116: self.in_use.remove(&value.0.key)
RemoveKeepsSlot(c, k) == c
RemoveSlot(c, k) == DropRaw([c EXCEPT !.in_use[k] = 0], c.in_use[k])

\* ResourceCache::remove(value: RawHandle), value a handle of instance i;
\* evicted is the key the pool gave up (0: none)
\* lines 116-117: the branch remove takes when it has found the count 2
Demote(c, i) ==
    LET k == c.inst[i].key
        c1 == RemoveSlot(c, k)
        put == LruPut(c1.loaded, k, i, c.cap)
        c2 == DropRaw(DropRaw([c1 EXCEPT !.loaded = put.q], put.old), put.evicted)
    IN [c |-> c2, evicted |-> put.evictedKey]

\* line 118: otherwise the handle passed in is dropped
DropPassed(c, i) == [c |-> DropRaw(c, i), evicted |-> 0]

remove(c, i) == IF RemoveGuard(c, i) THEN Demote(c, i) ELSE DropPassed(c, i)

\* ------------------------------------------------------------ the callers
\* the number of handles of instance i held outside the cache
Ext(i) == handles[i][Raw] + handles[i]["i32"] + handles[i]["str"]

RECURSIVE HeldUpTo(_)
HeldUpTo(n) == IF n = 0 THEN 0 ELSE Ext(n) + HeldUpTo(n - 1)

\* the callers can hold one more handle
Room == HeldUpTo(Len(inst)) < MaxHandles

NoHandles == [s \in Sty |-> 0]

\* no remove is between its read of the count and its change of the maps
NotRemoving == [i |-> 0, two |-> FALSE, cloned |-> FALSE]

Commit(c) ==
    /\ inst' = c.inst
    /\ strong' = c.strong
    /\ in_use' = c.in_use
    /\ loaded' = c.loaded
    /\ capacity' = c.cap

\* ResourceCache::new(cap)
new(cap) ==
    /\ inst = <<>>
    /\ strong = <<>>
    /\ in_use = [k \in Keys |-> 0]
    /\ loaded = <<>>
    /\ capacity = cap
    /\ handles = <<>>
    /\ demoted = <<>>
    /\ run = <<>>
    /\ clean = <<>>
    /\ removing = NotRemoving

\* a call of the cache is made while no other call is under way
Unlocked == removing = NotRemoving /\ removing' = removing

Insert(k, value) ==
    /\ Unlocked
    /\ Len(inst) < MaxInst
    /\ Room
    /\ Commit(insert(State, k, value).c)
    /\ handles' = Append(handles, [NoHandles EXCEPT ![TypeOf(value)] = 1])

GetRaw(k) ==
    LET r == get_raw(State, k)
    IN /\ Unlocked
       /\ r.ret # 0 => Room
       /\ Commit(r.c)
       /\ handles' = IF r.ret = 0 THEN handles ELSE [handles EXCEPT ![r.ret][Raw] = @ + 1]

Get(k, T) ==
    LET r == get(State, k, T)
    IN /\ Unlocked
       /\ r.ret # 0 => Room
       /\ Commit(r.c)
       /\ handles' = IF r.ret = 0 THEN handles ELSE [handles EXCEPT ![r.ret][T] = @ + 1]

\* the caller gives up one RawHandle of instance i
Remove(i) ==
    /\ Unlocked
    /\ i \in 1..Len(inst)
    /\ handles[i][Raw] > 0
    /\ Commit(remove(State, i).c)
    /\ handles' = [handles EXCEPT ![i][Raw] = @ - 1]

\* Clone for RawHandle (derived) and for Handle<T>
Clone(i, s) ==
    /\ i \in 1..Len(inst)
    /\ handles[i][s] > 0
    /\ Room
    /\ Commit(CloneRaw(State, i))
    /\ handles' = [handles EXCEPT ![i][s] = @ + 1]

\* a handle goes out of scope
DropHandle(i, s) ==
    /\ i \in 1..Len(inst)
    /\ handles[i][s] > 0
    /\ Commit(DropRaw(State, i))
    /\ handles' = [handles EXCEPT ![i][s] = @ - 1]

\* RawHandle::downcast::<T>(self) -> Result<Handle<T>, RawHandle>: on a
\* mismatch the caller has its RawHandle back
Downcast(i, T) ==
    /\ i \in 1..Len(inst)
    /\ handles[i][Raw] > 0
    /\ handles' = IF Is(State, i, T)
                  THEN [handles EXCEPT ![i][Raw] = @ - 1, ![i][T] = @ + 1]
                  ELSE handles
    /\ UNCHANGED <<inst, strong, in_use, loaded, capacity>>

\* Into<RawHandle> for Handle<T>
Into(i, T) ==
    /\ i \in 1..Len(inst)
    /\ handles[i][T] > 0
    /\ handles' = [handles EXCEPT ![i][T] = @ - 1, ![i][Raw] = @ + 1]
    /\ UNCHANGED <<inst, strong, in_use, loaded, capacity>>

\* Keys and types are only compared for equality, so the callers name them in
\* the order of first use: a key not inserted before is the next one, and the
\* first value inserted is an i32.
UsedKeys == {inst[j].key : j \in 1..Len(inst)}
FreshKeys == {k \in Keys : k <= Cardinality(UsedKeys) + 1}
FreshTypes == IF inst = <<>> THEN {"i32"} ELSE Types

\* ------------------------------------------------------------ the history
\* The history variables record which calls were made; no call reads them.
KeysOf(h) == {h[j] : j \in 1..Len(h)}
Forget(h, k) == SelectSeq(h, LAMBDA x : x # k)
StillLoaded(h, q) == SelectSeq(h, LAMBDA x : HasKey(q, x))

\* h after its last entry for k (h itself when k is not in it)
RECURSIVE After(_, _)
After(h, k) == IF k \in KeysOf(h) THEN After(Tail(h), k) ELSE h

\* remove(h) demotes when it finds the count 2
Demotes(i) == strong[i] = 2

\* run and clean hold the longest run of demotions of distinct keys that ends
\* with the latest demotion: a key demoted again starts the run anew after its
\* earlier demotion. They are recorded when rec is set.
AfterInsert(k, rec) ==
    /\ demoted' = StillLoaded(demoted, loaded')
    /\ run' = run
    /\ clean' = IF rec THEN After(clean, k) ELSE clean

AfterLookup ==
    /\ demoted' = StillLoaded(demoted, loaded')
    /\ run' = <<>>
    /\ clean' = <<>>

AfterRemove(i, rec) ==
    IF Demotes(i)
    THEN /\ demoted' = StillLoaded(Append(Forget(demoted, inst[i].key), inst[i].key), loaded')
         /\ run' = IF rec THEN Append(After(run, inst[i].key), inst[i].key) ELSE run
         /\ clean' = IF rec THEN Append(After(clean, inst[i].key), inst[i].key) ELSE clean
    ELSE UNCHANGED <<demoted, run, clean>>

\* the calls, with values of the types Ty
Calls(Ty, rec) ==
    \/ \E k \in FreshKeys, T \in Ty \cap FreshTypes :
            Insert(k, [ty |-> T, v |-> Len(inst) + 1]) /\ AfterInsert(k, rec)
    \/ \E k \in Keys : GetRaw(k) /\ AfterLookup
    \/ \E k \in Keys, T \in Types : Get(k, T) /\ AfterLookup
    \/ \E i \in 1..MaxInst : Remove(i) /\ AfterRemove(i, rec)
    \/ \E i \in 1..MaxInst, s \in Sty : Clone(i, s) /\ UNCHANGED <<demoted, run, clean, removing>>
    \/ \E i \in 1..MaxInst, s \in Sty : DropHandle(i, s) /\ UNCHANGED <<demoted, run, clean, removing>>
    \/ \E i \in 1..MaxInst, T \in Types : Downcast(i, T) /\ UNCHANGED <<demoted, run, clean, removing>>
    \/ \E i \in 1..MaxInst, T \in Types : Into(i, T) /\ UNCHANGED <<demoted, run, clean, removing>>

\* The cache of capacity MaxCapacity, holding values of both types.
Next == Calls(Types, FALSE)

Init == new(MaxCapacity)

Spec == Init /\ [][Next]_vars

\* The cache of every capacity up to MaxCapacity with the runs of demotions
\* recorded; the values are all of one type, which the pool never looks at.
NextRun == Calls({"i32"}, TRUE)

InitRun == \E cap \in 1..MaxCapacity : new(cap)

SpecRun == InitRun /\ [][NextRun]_vars

\* The cache of capacity MaxCapacity holding values of one type: the calls
\* differ from those of Next only in the types of the values inserted, which
\* no tier looks at.
NextOneType == Calls({"i32"}, FALSE)

SpecOneType == Init /\ [][NextOneType]_vars

\* The callers never insert under a key that is in in_use; otherwise the calls
\* of Next, for every capacity up to MaxCapacity.
NextNoOverwrite ==
    \/ \E k \in FreshKeys, T \in FreshTypes :
            /\ in_use[k] = 0
            /\ Insert(k, [ty |-> T, v |-> Len(inst) + 1])
            /\ AfterInsert(k, FALSE)
    \/ \E k \in Keys : GetRaw(k) /\ AfterLookup
    \/ \E k \in Keys, T \in Types : Get(k, T) /\ AfterLookup
    \/ \E i \in 1..MaxInst : Remove(i) /\ AfterRemove(i, FALSE)
    \/ \E i \in 1..MaxInst, s \in Sty : Clone(i, s) /\ UNCHANGED <<demoted, run, clean, removing>>
    \/ \E i \in 1..MaxInst, s \in Sty : DropHandle(i, s) /\ UNCHANGED <<demoted, run, clean, removing>>
    \/ \E i \in 1..MaxInst, T \in Types : Downcast(i, T) /\ UNCHANGED <<demoted, run, clean, removing>>
    \/ \E i \in 1..MaxInst, T \in Types : Into(i, T) /\ UNCHANGED <<demoted, run, clean, removing>>

SpecNoOverwrite == InitRun /\ [][NextNoOverwrite]_vars

\* ------------------------------------------------- remove in two steps
\* remove takes its RawHandle by value: the caller no longer holds it
MovedButKept(h, i) == h
Moved(h, i) == [h EXCEPT ![i][Raw] = @ - 1]

\* line 115: remove, holding the lock of the cache, reads the count
RemoveRead(i) ==
    /\ removing = NotRemoving
    /\ i \in 1..Len(inst)
    /\ handles[i][Raw] > 0
    /\ removing' = [i |-> i, two |-> RemoveGuard(State, i), cloned |-> FALSE]
    /\ handles' = Moved(handles, i)
    /\ UNCHANGED <<inst, strong, in_use, loaded, capacity, demoted, run, clean>>

\* lines 116-118: remove acts on the count it has read, and gives up the lock
RemoveAct ==
    /\ removing # NotRemoving
    /\ Commit(IF removing.two
              THEN Demote(State, removing.i).c
              ELSE DropPassed(State, removing.i).c)
    /\ demoted' = IF removing.two
                  THEN StillLoaded(Append(Forget(demoted, inst[removing.i].key),
                                          inst[removing.i].key), loaded')
                  ELSE demoted
    /\ removing' = NotRemoving
    /\ UNCHANGED <<handles, run, clean>>

\* a thread clones a handle it holds, also while a remove is under way
CloneMeanwhile(i, s) ==
    /\ Clone(i, s)
    /\ removing' = IF removing = NotRemoving THEN removing ELSE [removing EXCEPT !.cloned = TRUE]
    /\ UNCHANGED <<demoted, run, clean>>

\* Every call of the cache is made under one lock, which remove holds from its
\* read of the count to its change of the maps; the threads clone, drop and
\* convert the handles they hold at any time. The values are all of one type.
NextSplit ==
    \/ \E k \in FreshKeys, T \in {"i32"} :
            Insert(k, [ty |-> T, v |-> Len(inst) + 1]) /\ AfterInsert(k, FALSE)
    \/ \E k \in Keys : GetRaw(k) /\ AfterLookup
    \/ \E k \in Keys, T \in Types : Get(k, T) /\ AfterLookup
    \/ \E i \in 1..MaxInst : RemoveRead(i)
    \/ RemoveAct
    \/ \E i \in 1..MaxInst, s \in Sty : CloneMeanwhile(i, s)
    \/ \E i \in 1..MaxInst, s \in Sty : DropHandle(i, s) /\ UNCHANGED <<demoted, run, clean, removing>>
    \/ \E i \in 1..MaxInst, T \in Types : Downcast(i, T) /\ UNCHANGED <<demoted, run, clean, removing>>
    \/ \E i \in 1..MaxInst, T \in Types : Into(i, T) /\ UNCHANGED <<demoted, run, clean, removing>>

SpecSplit == Init /\ [][NextSplit]_vars

\* ------------------------------------------------------------ the claims
Live == 1..Len(inst)
InUseKeys == {k \in Keys : in_use[k] # 0}

\* C1 (tier exclusivity): in every reachable state no key is present in both
\* in_use and loaded, and no key is stored twice in loaded.
C1_TierExclusivity ==
    /\ \A k \in Keys : ~(in_use[k] # 0 /\ HasKey(loaded, k))
    /\ Cardinality(LoadedKeys(loaded)) = Len(loaded)

\* a key was released into loaded and inserted again while another key is
\* still in loaded
C1_Witness ==
    \E k \in InUseKeys :
        /\ \E j \in Live : j < in_use[k] /\ inst[j].key = k /\ strong[j] = 0
        /\ loaded # <<>>

\* C2 (demotion gating): remove(h) moves a key into loaded only when no other
\* handle of h's instance is held outside the cache, and every entry of loaded
\* is owned by the cache alone (strong count 1, no handle outside).
C2_LoadedSoleOwner ==
    /\ \A i \in Live :
        (handles[i][Raw] > 0 /\ remove(State, i).c.loaded # loaded) => Ext(i) = 1
    /\ \A j \in 1..Len(loaded) : strong[loaded[j].inst] = 1 /\ Ext(loaded[j].inst) = 0

\* the instance most recently inserted under k (0: none)
Newest(k) ==
    IF \E j \in Live : inst[j].key = k
    THEN CHOOSE j \in Live : inst[j].key = k /\ \A m \in Live : inst[m].key = k => m <= j
    ELSE 0

\* C3 (lookup identity): get_raw(k) returns nothing or a handle of the instance
\* the latest insert for k created, never the instance of an earlier insert.
C3_LookupIdentity ==
    \A k \in Keys : get_raw(State, k).ret = 0 \/ ptr_eq(get_raw(State, k).ret, Newest(k))

\* C4 (the two owners): whenever remove(h) finds the count 2, in_use[h.key] is
\* the instance of h, so the entry remove takes out of in_use is h's own.
C4_RemoveOwnsSlot ==
    \A i \in Live :
        (handles[i][Raw] > 0 /\ strong[i] = 2) => ptr_eq(in_use[inst[i].key], i)

\* C7 (capacity bound): loaded never holds more entries than the capacity given
\* at construction.
C7_CapacityBound == Len(loaded) <= capacity

\* the pool is full, more keys are in use than the pool can hold, and a
\* remove that is possible now makes the pool give up an entry
C7_Witness ==
    /\ Len(loaded) = capacity
    /\ \E i \in Live : handles[i][Raw] > 0 /\ remove(State, i).evicted # 0

\* C9 (typed handles): every Handle<T> a caller holds refers to an instance
\* whose value has the dynamic type T, so Deref never panics.
C9_TypedHandle ==
    \A i \in Live : \A T \in Types : handles[i][T] > 0 => Deref(State, i, T) # Panic

\* typed handles of both types are held at once, the Handle<str> being the
\* only handle of an instance that is not the newest one
C9_Witness ==
    \E i \in Live, j \in Live :
        /\ handles[i]["i32"] > 0 /\ handles[j]["str"] > 0
        /\ strong[j] = 2 /\ Ext(j) = 1 /\ j < Len(inst)

\* the instance the cache stores under k, in either tier (0: none)
Stored(c, k) == IF c.in_use[k] # 0 THEN c.in_use[k] ELSE Peek(c.loaded, k)
TierOf(c, k) ==
    IF c.in_use[k] # 0 THEN "in_use" ELSE IF HasKey(c.loaded, k) THEN "loaded" ELSE "absent"

\* k is stored and its value is not a T
Mismatch(k, T) == Stored(State, k) # 0 /\ TypeOf(inst[Stored(State, k)].value) # T

\* C5 as stated (downcast mismatch): for a stored key whose value is not a T,
\* get::<T>(k) returns nothing and leaves the entry's tier and its reference
\* count as they were.
C5_MismatchKeepsTier ==
    \A k \in Keys, T \in Types :
        Mismatch(k, T) =>
            LET r == get(State, k, T)
            IN /\ r.ret = 0
               /\ TierOf(r.c, k) = TierOf(State, k)
               /\ r.c.strong[Stored(State, k)] = strong[Stored(State, k)]

\* C5 as amended: for a stored key whose value is not a T, get::<T>(k) returns
\* nothing and leaves every reference count and every instance as it was; an
\* entry of in_use stays where it is and nothing else changes, while an entry
\* of loaded is promoted to in_use exactly as get_raw promotes it.
C5_MismatchPromotes ==
    \A k \in Keys, T \in Types :
        Mismatch(k, T) =>
            LET r == get(State, k, T)
            IN /\ r.ret = 0
               /\ r.c.strong = strong
               /\ r.c.inst = inst
               /\ IF in_use[k] # 0
                  THEN r.c.in_use = in_use /\ r.c.loaded = loaded
                  ELSE /\ r.c.in_use = [in_use EXCEPT ![k] = Peek(loaded, k)]
                       /\ r.c.loaded = Without(loaded, k)

\* a key of loaded whose value is not a T, which get::<T> moves to in_use
C5_Witness ==
    \E k \in Keys, T \in Types :
        /\ HasKey(loaded, k)
        /\ Mismatch(k, T)
        /\ TierOf(get(State, k, T).c, k) = "in_use"

\* C8 (insert postcondition): whatever the state of k before, after
\* insert(k, v) the key is in in_use and not in loaded, in_use[k] is the
\* instance of the handle returned, that handle dereferences to v, and a
\* get::<T>(k) made at once, T the type of v, yields v.
C8_InsertPost ==
    \A k \in Keys, value \in Values :
        LET r == insert(State, k, value)
            g == get(r.c, k, TypeOf(value))
        IN /\ r.c.in_use[k] # 0
           /\ ptr_eq(r.c.in_use[k], r.ret)
           /\ ~HasKey(r.c.loaded, k)
           /\ Deref(r.c, r.ret, TypeOf(value)) = value
           /\ g.ret # 0
           /\ Deref(g.c, g.ret, TypeOf(value)) = value

\* one key is in in_use, one in loaded and one in neither: insert meets all
\* three prior states
C8_Witness ==
    \E ka \in Keys, kb \in Keys, kc \in Keys :
        /\ TierOf(State, ka) = "in_use"
        /\ TierOf(State, kb) = "loaded"
        /\ TierOf(State, kc) = "absent"
        /\ insert(State, kb, [ty |-> "str", v |-> Len(inst) + 1]).c.loaded # loaded

\* h is the only handle of i outside the cache, and i is what in_use stores
\* under its key
SoleHandle(i) == Ext(i) = 1 /\ in_use[inst[i].key] = i

\* C10 (demotion/promotion round trip): if h is the only external handle of
\* the instance stored at in_use[k], remove(h) leaves k in loaded and not in
\* in_use, and a get_raw(k) made at once returns a handle of the same instance,
\* with k back in in_use, out of loaded, and the value unchanged.
C10_RoundTrip ==
    \A i \in Live :
        SoleHandle(i) =>
            LET k == inst[i].key
                r == remove(State, i)
                g == get_raw(r.c, k)
            IN /\ HasKey(r.c.loaded, k)
               /\ r.c.in_use[k] = 0
               /\ g.ret # 0
               /\ ptr_eq(g.ret, i)
               /\ g.c.in_use[k] = i
               /\ ~HasKey(g.c.loaded, k)
               /\ g.c.inst[i] = inst[i]

\* the only handle of an in_use entry is about to be removed while the pool
\* is full, so that the demotion evicts another key
C10_Witness ==
    \E i \in Live :
        /\ SoleHandle(i)
        /\ handles[i][Raw] = 1
        /\ remove(State, i).evicted # 0

\* a held RawHandle whose remove would demote its key into a full pool that
\* does not hold the key
FullDemotion(i) ==
    /\ handles[i][Raw] > 0
    /\ Demotes(i)
    /\ Len(loaded) >= capacity
    /\ ~HasKey(loaded, inst[i].key)

\* remove(h) into a full pool without h.key evicts exactly the key demoted
\* longest ago among the keys in loaded; every other remove, and every insert,
\* get_raw and get, takes no key but its own out of loaded.
EvictsOldest ==
    /\ \A i \in Live :
        handles[i][Raw] > 0 =>
            LET k == inst[i].key
                r == remove(State, i)
            IN IF FullDemotion(i)
               THEN /\ r.evicted = Head(demoted)
                    /\ LoadedKeys(r.c.loaded) = (LoadedKeys(loaded) \ {Head(demoted)}) \cup {k}
                    /\ Len(r.c.loaded) = Len(loaded)
               ELSE /\ r.evicted = 0
                    /\ LoadedKeys(loaded) \subseteq LoadedKeys(r.c.loaded)
    /\ \A k \in Keys :
        /\ LoadedKeys(loaded) \ {k} \subseteq LoadedKeys(get_raw(State, k).c.loaded)
        /\ \A T \in Types : LoadedKeys(loaded) \ {k} \subseteq LoadedKeys(get(State, k, T).c.loaded)
        /\ Len(inst) < MaxInst =>
              LoadedKeys(loaded) \ {k} \subseteq
                  LoadedKeys(insert(State, k, [ty |-> "i32", v |-> Len(inst) + 1]).c.loaded)

\* after the demotions h of more than capacity distinct keys, loaded holds
\* exactly the last capacity keys of h and get_raw finds none of the earlier
LastKept(h) ==
    Len(h) > capacity =>
        /\ LoadedKeys(loaded) = {h[j] : j \in (Len(h) - capacity + 1)..Len(h)}
        /\ \A j \in 1..(Len(h) - capacity) : get_raw(State, h[j]).ret = 0

\* C6 as stated (LRU eviction order): a demotion into a full pool evicts the
\* key demoted longest ago and nothing else evicts; hence after demoting more
\* than capacity distinct keys with no lookup in between, loaded holds exactly
\* the last capacity keys and get_raw on each earlier key returns nothing.
C6_EvictionOrder == EvictsOldest /\ LastKept(run)

\* C6, amended: the same, for demotions with no lookup in between and no insert
\* under a key demoted earlier in the run.
C6_EvictionOrderNoReinsert == EvictsOldest /\ LastKept(clean)

\* more than capacity distinct keys were demoted with no lookup and no insert
\* of an earlier key in between, and a held handle is about to be demoted into
\* the full pool
C6_Witness ==
    /\ Len(clean) > capacity
    /\ \E i \in Live : FullDemotion(i)

\* the count of the instance insert has just created is 2
InsertCountsTwo ==
    \A k \in Keys, value \in Values :
        LET r == insert(State, k, value) IN r.c.strong[r.ret] = 2

\* a clone of a handle adds one to the count of its instance and to no other
CloneAddsOne ==
    \A i \in Live :
        Ext(i) > 0 => CloneRaw(State, i).strong = [strong EXCEPT ![i] = @ + 1]

\* the count of an instance get_raw has just promoted from loaded is 2
PromotionCountsTwo ==
    \A k \in Keys :
        (in_use[k] = 0 /\ HasKey(loaded, k)) =>
            LET r == get_raw(State, k) IN r.c.strong[r.ret] = 2

\* C11 (reference sharing): right after insert the count of the new instance
\* is exactly 2, each clone of a handle raises the count by exactly one, and
\* right after a get_raw that promotes an entry from loaded the count of the
\* instance returned is exactly 2.
C11_ReferenceSharing == InsertCountsTwo /\ CloneAddsOne /\ PromotionCountsTwo

\* C12 (frame of remove): remove(h) changes in_use or loaded only when the
\* count of h's instance is exactly 2; for any other count both tiers, the
\* order of loaded included, are as before, nothing is evicted, and the only
\* effect is that the count of h's instance is one lower.
C12_RemoveFrame ==
    \A i \in Live :
        handles[i][Raw] > 0 =>
            LET r == remove(State, i)
            IN /\ (r.c.in_use # in_use \/ r.c.loaded # loaded) => strong[i] = 2
               /\ strong[i] # 2 =>
                    /\ r.c.in_use = in_use
                    /\ r.c.loaded = loaded
                    /\ r.evicted = 0
                    /\ r.c.strong = [strong EXCEPT ![i] = @ - 1]

\* a RawHandle of an instance with the count 3 can be removed while loaded
\* holds an entry
C12_Witness ==
    /\ loaded # <<>>
    /\ \E i \in Live : handles[i][Raw] > 0 /\ strong[i] = 3

\* Every call that can be made in the present state, with the state it leaves:
\* op names the call, k its key, i the instance of the handle it is given
\* (0: none), evicted the key the pool gave up (0: none).
Outcome(op, k, i, c, evicted) == [op |-> op, k |-> k, i |-> i, c |-> c, evicted |-> evicted]
InsertOutcomes ==
    {Outcome("insert", k, 0, insert(State, k, [ty |-> T, v |-> Len(inst) + 1]).c, 0) :
            k \in Keys, T \in Types}
LookupOutcomes ==
    {Outcome("get_raw", k, 0, get_raw(State, k).c, 0) : k \in Keys}
    \cup {Outcome("get", k, 0, get(State, k, T).c, 0) : k \in Keys, T \in Types}
RemoveOutcomes ==
    {Outcome("remove", inst[i].key, i, remove(State, i).c, remove(State, i).evicted) :
            i \in {j \in Live : handles[j][Raw] > 0}}
HandleOutcomes ==
    {Outcome("clone", inst[i].key, i, CloneRaw(State, i), 0) : i \in {j \in Live : Ext(j) > 0}}
    \cup {Outcome("drop", inst[i].key, i, DropRaw(State, i), 0) : i \in {j \in Live : Ext(j) > 0}}
Outcomes == InsertOutcomes \cup LookupOutcomes \cup RemoveOutcomes \cup HandleOutcomes

\* C13 (leaving in_use): the only call after which a key that was in in_use is
\* no longer in in_use is a remove that finds the count 2, and after it the key
\* is in loaded; a key becomes absent from both tiers only from loaded, and
\* only as the key a full pool gives up when remove puts another key into it.
C13_InUseExit ==
    \A o \in Outcomes :
        \A k \in Keys :
            LET before == TierOf(State, k)
                after == TierOf(o.c, k)
            IN /\ (before = "in_use" /\ after # "in_use") =>
                    /\ o.op = "remove"
                    /\ strong[o.i] = 2
                    /\ after = "loaded"
               /\ (before # "absent" /\ after = "absent") =>
                    /\ before = "loaded"
                    /\ o.op = "remove"
                    /\ o.evicted = k
                    /\ o.k # k
                    /\ Len(loaded) >= capacity

\* one remove that can be made now moves a key from in_use to loaded and
\* makes the full pool give up another key
C13_Witness ==
    \E o \in Outcomes, ka \in Keys, kb \in Keys :
        /\ TierOf(State, ka) = "in_use" /\ TierOf(o.c, ka) = "loaded"
        /\ TierOf(State, kb) = "loaded" /\ TierOf(o.c, kb) = "absent"

\* C14 (entering the tiers): a key that is in neither tier becomes present
\* only through insert, which places it in in_use; and in every call after
\* which a key is in loaded that was not in loaded before, the key was in
\* in_use just before the call.
C14_EntryViaInsert ==
    \A o \in Outcomes, k \in Keys :
        /\ (TierOf(State, k) = "absent" /\ TierOf(o.c, k) # "absent") =>
              /\ o.op = "insert"
              /\ o.k = k
              /\ TierOf(o.c, k) = "in_use"
        /\ (~HasKey(loaded, k) /\ HasKey(o.c.loaded, k)) => TierOf(State, k) = "in_use"

\* k is present in one of the tiers
IsPresent(c, k) == c.in_use[k] # 0 \/ HasKey(c.loaded, k)

\* C15 (independence of the keys): insert(k, v), get::<T>(k) and get_raw(k)
\* leave the tier, the stored instance and the relative recency order of
\* every key other than k as they were: the in_use slot of every other key,
\* the pool without k and every instance of another key are as before. A
\* promotion evicts nothing, and the keys present in in_use or loaded are the
\* same before and after a lookup.
C15_OtherKeysKept ==
    \A o \in InsertOutcomes \cup LookupOutcomes :
        /\ \A k \in Keys \ {o.k} : o.c.in_use[k] = in_use[k]
        /\ Without(o.c.loaded, o.k) = Without(loaded, o.k)
        /\ \A j \in Live :
              inst[j].key # o.k => o.c.inst[j] = inst[j] /\ o.c.strong[j] = strong[j]
        /\ o.op # "insert" => (IsPresent(o.c, o.k) <=> IsPresent(State, o.k))

\* the pool holds two keys, either of which a lookup can promote, while
\* another key is in in_use
C15_Witness ==
    /\ Len(loaded) = 2
    /\ InUseKeys # {}

\* the state after m handles of instance i were passed to remove, one by one
RECURSIVE Released(_, _, _)
Released(c, i, m) == IF m = 0 THEN c ELSE remove(Released(c, i, m - 1), i).c

\* C16 (the last owner demotes): if instance i is the one stored at in_use[k]
\* and its n >= 1 handles outside the cache are each passed to remove, the
\* first n-1 removes leave both tiers as they were and the last one moves k
\* from in_use to loaded; a call on another key made in between changes
\* neither in_use[k] nor the count of i.
C16_LastOwnerDemotes ==
    /\ \A i \in Live :
        (Ext(i) >= 1 /\ in_use[inst[i].key] = i) =>
            LET k == inst[i].key
                n == Ext(i)
                c == Released(State, i, n)
            IN /\ \A m \in 1..(n - 1) :
                    /\ Released(State, i, m).in_use = in_use
                    /\ Released(State, i, m).loaded = loaded
               /\ c.in_use = [in_use EXCEPT ![k] = 0]
               /\ ~HasKey(loaded, k)
               /\ Peek(c.loaded, k) = i
    /\ \A o \in Outcomes : \A k \in Keys \ {o.k} :
        (in_use[k] # 0 /\ Ext(in_use[k]) >= 1) =>
            /\ o.c.in_use[k] = in_use[k]
            /\ o.c.strong[in_use[k]] = strong[in_use[k]]

\* two handles of the instance stored in in_use are held while the pool is
\* full: the first remove changes nothing, the second demotes and evicts
C16_Witness ==
    /\ Len(loaded) = capacity
    /\ \E i \in Live : Ext(i) = 2 /\ in_use[inst[i].key] = i

\* every instance a caller holds a handle of is the one in_use stores under
\* its key, and every entry of loaded has the count 1
HeldIsInUse ==
    /\ \A i \in Live : Ext(i) >= 1 => in_use[inst[i].key] = i
    /\ \A j \in 1..Len(loaded) : strong[loaded[j].inst] = 1

\* C17 (no overwrite): if insert is never called for a key that is in in_use,
\* then in every reachable state each instance with a handle outside the cache
\* is the instance stored at in_use under its own key, and every entry of
\* loaded has the reference count exactly 1.
C17_NoOverwriteHeldInUse == HeldIsInUse

\* a key was demoted and inserted again, its first instance freed, its new
\* one held twice, while the pool holds an entry
C17_Witness ==
    /\ loaded # <<>>
    /\ \E i \in Live, j \in Live :
        /\ j < i /\ inst[j].key = inst[i].key /\ strong[j] = 0
        /\ Ext(i) = 2

\* C18 (remove in two steps under one lock): when remove has read the count 2
\* for the instance stored at in_use under its key, no thread holds a handle
\* of that instance and the count is still 2 when remove changes the maps,
\* whatever the threads clone or drop in between.
C18_SplitRemoveSafe ==
    (removing.two /\ in_use[inst[removing.i].key] = removing.i) =>
        /\ Ext(removing.i) = 0
        /\ strong[removing.i] = 2

\* remove has read the count 2 for the instance in in_use and has not yet
\* acted, and a thread has cloned a handle meanwhile
C18_Witness ==
    /\ removing.two
    /\ removing.cloned
    /\ in_use[inst[removing.i].key] = removing.i

\* the number of slots of the cache that hold instance i
Slots(i) ==
    Cardinality({k \in Keys : in_use[k] = i})
        + Cardinality({j \in 1..Len(loaded) : loaded[j].inst = i})

\* C19 (slot/key consistency): the instance stored under key k in in_use or
\* in loaded carries k as its own key, no instance is held by more than one
\* slot of the cache, and the count of every instance is the number of handles
\* held outside the cache plus at most 1 for the cache.
C19_SlotKeyConsistent ==
    /\ \A k \in Keys : in_use[k] # 0 => inst[in_use[k]].key = k
    /\ \A j \in 1..Len(loaded) : inst[loaded[j].inst].key = loaded[j].key
    /\ \A i \in Live : Slots(i) <= 1 /\ strong[i] = Ext(i) + Slots(i)

\* loaded stores an instance that is not the newest of its key and of which
\* a caller still holds a handle
C19_Witness ==
    \E k \in Keys :
        /\ HasKey(loaded, k)
        /\ Peek(loaded, k) # Newest(k)
        /\ Ext(Peek(loaded, k)) >= 1

====
